---- MODULE Spec2Model ----
(***************************************************************************)
(* A model of the selection engine of Control/customControl.js: the        *)
(* tri-state propagation between parent and child checkboxes, the bulk     *)
(* select/clear, the search filter with its recalculation of parent marks, *)
(* and the extraction/injection API (getDDLData / setDDLData).             *)
(*                                                                         *)
(* The DOM is the program's state.  A node is addressed by its position:   *)
(* parent p is the p-th item of data, child <<p, c>> the c-th child of     *)
(* that item; the data-* identifiers the code's selectors use are looked   *)
(* up in data.  The text match of the search (name.includes(term)) is an   *)
(* input of handleSearch: the set of nodes whose name contains the term.   *)
(***************************************************************************)
EXTENDS Integers, Sequences, FiniteSets, TLC

MaxParents == 2
MaxChildren == 3
MaxNodes == 5
MaxListLen == 1
MaxApiNodes == 3
MaxIds == 2

VARIABLES
    data,         \* settings.data, as rendered: <<[id, children: <<id, ...>>], ...>>
    flags,        \* settings.flags
    pMark,        \* parent checkbox p: [checked, indeterminate]
    cMark,        \* child checkbox <<p, c>>: cMark[p][c] = [checked, indeterminate]
    pHidden,      \* 'ddl-hidden' on the ddl-parent element of p
    cHidden,      \* 'ddl-hidden' on the ddl-child element <<p, c>>
    searchValue,  \* value of the ddl-search input
    header,       \* text of the ddl-header
    selected,     \* the ddl-option elements carrying 'ddl-selected' (single selection)
    run,          \* the forEach in progress (bulk toggle or injection), or idle
    pending,      \* what the forEach in progress has still to visit
    last,         \* the handler that ran last (history, read by the properties only)
    call,         \* the API call made last, with its arguments and its return value
    page,         \* the second dropdown of the page, and the container ids of the two
    render        \* initialize and renderOptions in progress: settings, id tracker, output

vars == <<data, flags, pMark, cMark, pHidden, cHidden, searchValue, header, selected,
          run, pending, last, call, page, render>>

--------------------------------------------------------------------------
(* Data and rendering *)

Unmarked == [checked |-> FALSE, indeterminate |-> FALSE]

MkChildren(i, k) == [j \in 1..k |-> 100 * i + j]

RECURSIVE NodeCount(_, _)
NodeCount(f, n) == IF n = 0 THEN 0 ELSE 1 + f[n] + NodeCount(f, n - 1)

\* the trees of at most MaxParents parents, MaxChildren children each, maxNodes nodes
TreesUpTo(maxNodes) ==
    UNION { { [i \in 1..n |-> [id |-> i, children |-> MkChildren(i, f[i])]] :
                f \in { g \in [1..n -> 0..MaxChildren] : NodeCount(g, n) <= maxNodes } } :
            n \in 1..MaxParents }

Trees == TreesUpTo(MaxNodes)

\* the same child id under two parents: the composite ids containerId-1-101 and
\* containerId-2-101 differ, so the tree is a legal one
ShareChildId(t) == [t EXCEPT ![2].children[1] = t[1].children[1]]

\* the trees the API is exercised on: those of at most MaxApiNodes nodes, and the
\* trees of one node more where parents 1 and 2 each have children and their first
\* children carry the same id
ApiTrees ==
    TreesUpTo(MaxApiNodes)
        \cup { ShareChildId(t) :
                   t \in { u \in TreesUpTo(MaxApiNodes + 1) : /\ Len(u) >= 2
                                                             /\ Len(u[1].children) >= 1
                                                             /\ Len(u[2].children) >= 1 } }

Parents == 1..Len(data)

\* renderOptions renders children only under hasTreeView
Kids(p) == IF flags.hasTreeView THEN 1..Len(data[p].children) ELSE {}

Children == { x \in Parents \X (1..MaxChildren + 1) : x[2] \in Kids(x[1]) }

\* getByName falls off its loop without a return: undefined, never null
Undefined == "undefined"
Null == "null"
Element == "element"

getByNameChildren == IF \E p \in Parents : Kids(p) # {} THEN Element ELSE Undefined
getByNameCheckbox == IF flags.hasMultiSelect /\ Parents # {} THEN Element ELSE Undefined
getByNameSearch == IF flags.hasSearch THEN Element ELSE Undefined

\* String.prototype.trim on the values the search box takes in the model
SearchValues == {"", " ", "x"}
Trim(v) == IF v = " " THEN "" ELSE v

\* searchBox && searchBox.value.trim() !== ''
hasActiveSearch == getByNameSearch # Undefined /\ Trim(searchValue) # ""

\* querySelector('[name*="parent-checkbox"][data-parent-id=...]'): first in document order
ParentCheckbox(parentId) ==
    IF \E p \in Parents : data[p].id = parentId
    THEN CHOOSE p \in Parents :
            /\ data[p].id = parentId
            /\ \A q \in Parents : data[q].id = parentId => p <= q
    ELSE 0

\* querySelectorAll('[name*="child-checkbox"][data-parent-id=...]')
ChildCheckboxes(parentId) == { x \in Children : data[x[1]].id = parentId }

\* the boxes whose ddl-child element does not carry 'ddl-hidden'
VisibleOf(ch, S) == { x \in S : ~ch[x[1]][x[2]] }

CheckedOf(d, S) == { x \in S : d.cm[x[1]][x[2]].checked }

\* an option element: parent label p is [p, c = 0], child element <<p, c>> is [p, c]
ParentOption(p) == [p |-> p, c |-> 0]
ChildOption(p, c) == [p |-> p, c |-> c]

\* a rendering that names every parent label 'ddl-option'
Options_everyParent ==
    IF flags.hasMultiSelect THEN {}
    ELSE { ParentOption(p) : p \in Parents }
         \cup { ChildOption(x[1], x[2]) : x \in Children }

\* addSingleSelectionHandlers / setupChildContent: the elements named 'ddl-option'.
\* A parent is one unless it is rendered with children; every rendered child is one.
Options ==
    IF flags.hasMultiSelect THEN {}
    ELSE { ParentOption(p) : p \in { q \in Parents : Kids(q) = {} } }
         \cup { ChildOption(x[1], x[2]) : x \in Children }

\* the names of the items, by position: parent p is Names[p], its c-th child Names[p]c
Names == <<"A", "B", "C", "D">>
ParentName(p) == Names[p]
ChildName(p, c) == Names[p] \o ToString(c)

\* Array.prototype.find over elements in document order: the first one of S
FirstOption(S) ==
    CHOOSE o \in S : \A u \in S : o.p < u.p \/ (o.p = u.p /\ o.c <= u.c)

--------------------------------------------------------------------------
(* getDDLData and the header *)

RECURSIVE SelectedChildren(_, _, _)
\* checkedChildren.forEach(cb => parent.children.find(c => c.id == childId)), from child c on
SelectedChildren(d, p, c) ==
    IF c > Len(data[p].children) THEN <<>>
    ELSE LET rest == SelectedChildren(d, p, c + 1)
             pid == data[p].id
             cid == data[p].children[c]
             box == <<p, c>> \in CheckedOf(d, ChildCheckboxes(pid))
             found == \E k \in 1..Len(data[p].children) : data[p].children[k] = cid
         IN IF box /\ found THEN <<cid>> \o rest ELSE rest

treeViewSelectedEntry_checkedParentsOnly(d, p) ==
    LET pid == data[p].id
        parentCheckbox == ParentCheckbox(pid)
    IN IF parentCheckbox # 0 /\ d.pm[parentCheckbox].checked
       THEN <<[id |-> pid, children |-> SelectedChildren(d, p, 1)]>>
       ELSE <<>>

\* the body of the forEach of getTreeViewSelectedData: what parent p adds to selectedData
treeViewSelectedEntry(d, p) ==
    LET pid == data[p].id
        parentCheckbox == ParentCheckbox(pid)
        checkedChildren == CheckedOf(d, ChildCheckboxes(pid))
        hasChildren == Len(data[p].children) > 0
    IN IF parentCheckbox # 0 /\ d.pm[parentCheckbox].checked
       THEN <<[id |-> pid,
               children |-> IF hasChildren /\ checkedChildren # {}
                            THEN SelectedChildren(d, p, 1) ELSE <<>>]>>
       ELSE IF checkedChildren # {}
       THEN <<[id |-> pid, children |-> SelectedChildren(d, p, 1)]>>
       ELSE <<>>

RECURSIVE getTreeViewSelectedData(_, _)
getTreeViewSelectedData(d, p) ==
    IF p > Len(data) THEN <<>>
    ELSE treeViewSelectedEntry(d, p) \o getTreeViewSelectedData(d, p + 1)

RECURSIVE getFlatSelectedData(_, _)
\* querySelectorAll('[name*="parent-checkbox"]:checked'), data.find(p => p.id == parentId)
getFlatSelectedData(d, p) ==
    IF p > Len(data) THEN <<>>
    ELSE LET rest == getFlatSelectedData(d, p + 1)
             parent == ParentCheckbox(data[p].id)
         IN IF d.pm[p].checked /\ parent # 0
            THEN <<[id |-> data[parent].id, name |-> ParentName(parent)]>> \o rest
            ELSE rest

\* getSingleSelectedData, as the list getDDLData makes of it: allOptions.find(option
\* => 'ddl-selected'), then the item read from the element and, for a child, the label
\* querySelector('[name*="ddl-parent-label"][data-id=parentId]') finds
getSingleSelectedData(d) ==
    LET selectedOption == FirstOption(d.sel \cap Options)
    IN IF d.sel \cap Options = {} THEN <<>>
       ELSE IF selectedOption.c = 0
       THEN <<[id |-> data[selectedOption.p].id, name |-> ParentName(selectedOption.p),
               type |-> "parent"]>>
       ELSE LET parentId == data[selectedOption.p].id
                parentElement == ParentCheckbox(parentId)
            IN <<[id |-> data[selectedOption.p].children[selectedOption.c],
                  name |-> ChildName(selectedOption.p, selectedOption.c),
                  type |-> "child",
                  parent |-> [id |-> parentId,
                              name |-> IF parentElement # 0 THEN ParentName(parentElement)
                                       ELSE ""]]>>

getDDLData(d) ==
    LET hasMultiSelect == getByNameCheckbox # Undefined
        hasTreeView == getByNameChildren # Undefined
        selectionType ==
            IF hasMultiSelect
            THEN (IF hasTreeView THEN "multi-tree" ELSE "multi-flat")
            ELSE (IF hasTreeView THEN "single-tree" ELSE "single-flat")
        selectedData ==
            IF hasMultiSelect
            THEN (IF hasTreeView THEN getTreeViewSelectedData(d, 1)
                                 ELSE getFlatSelectedData(d, 1))
            ELSE getSingleSelectedData(d)
    IN [selected |-> selectedData, hasData |-> Len(selectedData) > 0,
        selectionType |-> selectionType]

Placeholder == <<"placeholder">>

RECURSIVE Join(_, _)
\* Array.prototype.join over sequences of tokens
Join(parts, sep) ==
    IF Len(parts) = 0 THEN <<>>
    ELSE IF Len(parts) = 1 THEN parts[1]
    ELSE parts[1] \o <<sep>> \o Join(Tail(parts), sep)

\* the display text of updateDropdownHeader; an item's name is written as its id
DisplayText(ddlData) ==
    IF ~ddlData.hasData THEN <<>>
    ELSE IF ddlData.selectionType = "multi-tree"
    THEN Join([i \in 1..Len(ddlData.selected) |->
                 LET item == ddlData.selected[i]
                 IN IF Len(item.children) > 0
                    THEN <<ToString(item.id), "<-">> \o
                         Join([k \in 1..Len(item.children) |->
                                 <<ToString(item.children[k])>>], ", ")
                    ELSE <<ToString(item.id)>>], ", ")
    ELSE IF ddlData.selectionType = "multi-flat"
    THEN Join([i \in 1..Len(ddlData.selected) |->
                 <<ToString(ddlData.selected[i].id)>>], ", ")
    ELSE IF ddlData.selectionType = "single-tree"
    THEN LET item == ddlData.selected[1]
         IN IF item.type = "child" /\ item.parent.name # ""
            THEN <<ToString(item.parent.id), "<-", ToString(item.id)>>
            ELSE <<ToString(item.id)>>
    ELSE <<ToString(ddlData.selected[1].id)>>

updateDropdownHeader(d) ==
    LET text == DisplayText(getDDLData(d))
    IN [d EXCEPT !.hd = IF text # <<>> THEN text ELSE Placeholder]

--------------------------------------------------------------------------
(* Tri-state propagation *)

Dom == [pm |-> pMark, cm |-> cMark, hd |-> header, sel |-> selected]

\* children toggled instead of set
SetChildrenChecked_toggling(d, S, v) ==
    [d EXCEPT !.cm = [p \in DOMAIN d.cm |-> [c \in DOMAIN d.cm[p] |->
                        IF <<p, c>> \in S
                        THEN [d.cm[p][c] EXCEPT !.checked = ~d.cm[p][c].checked]
                        ELSE d.cm[p][c]]]]

\* childCheckbox.checked = isChecked, for the child checkboxes S
SetChildrenChecked(d, S, v) ==
    [d EXCEPT !.cm = [p \in DOMAIN d.cm |-> [c \in DOMAIN d.cm[p] |->
                        IF <<p, c>> \in S THEN [d.cm[p][c] EXCEPT !.checked = v]
                        ELSE d.cm[p][c]]]]

childrenToUpdate_all(allChildCheckboxes) == allChildCheckboxes

\* during search only the visible children, otherwise all of them
childrenToUpdate(allChildCheckboxes) ==
    IF hasActiveSearch THEN VisibleOf(cHidden, allChildCheckboxes)
    ELSE allChildCheckboxes

\* the change listener of parent checkbox p, d.pm[p] already holding the new value
handleParentCheckboxChange(d, p) ==
    LET isChecked == d.pm[p].checked
        allChildCheckboxes == ChildCheckboxes(data[p].id)
    IN updateDropdownHeader(
            SetChildrenChecked(d, childrenToUpdate(allChildCheckboxes), isChecked))

SetParent(d, q, c, i) ==
    [d EXCEPT !.pm[q] = [checked |-> c, indeterminate |-> i]]

visibleChildrenRule_noHiddenCheck(d, q, childCheckboxes) ==
    LET visible == VisibleOf(cHidden, childCheckboxes)
        visibleChecked == CheckedOf(d, visible)
    IN IF visible = {} THEN d
       ELSE IF visibleChecked = {} THEN SetParent(d, q, FALSE, FALSE)
       ELSE IF Cardinality(visibleChecked) = Cardinality(visible)
       THEN SetParent(d, q, TRUE, FALSE)
       ELSE SetParent(d, q, FALSE, TRUE)

\* handleChildCheckboxChange during search: the parent follows its visible children
visibleChildrenRule(d, q, childCheckboxes) ==
    LET visible == VisibleOf(cHidden, childCheckboxes)
        visibleChecked == CheckedOf(d, visible)
        anyChildrenChecked == CheckedOf(d, childCheckboxes) # {}
    IN IF visible = {} THEN d
       ELSE IF visibleChecked = {}
       THEN (IF ~anyChildrenChecked THEN SetParent(d, q, FALSE, FALSE) ELSE d)
       ELSE IF Cardinality(visibleChecked) = Cardinality(visible)
       THEN SetParent(d, q, TRUE, FALSE)
       ELSE SetParent(d, q, FALSE, TRUE)

allChildrenRule_anyChecked(d, q, childCheckboxes) ==
    IF CheckedOf(d, childCheckboxes) = {} THEN SetParent(d, q, FALSE, FALSE)
    ELSE SetParent(d, q, TRUE, FALSE)

\* handleChildCheckboxChange without search: the parent follows all its children
allChildrenRule(d, q, childCheckboxes) ==
    LET checkedChildren == CheckedOf(d, childCheckboxes)
    IN IF checkedChildren = {} THEN SetParent(d, q, FALSE, FALSE)
       ELSE IF Cardinality(checkedChildren) = Cardinality(childCheckboxes)
       THEN SetParent(d, q, TRUE, FALSE)
       ELSE SetParent(d, q, FALSE, TRUE)

\* a listener whose write to the parent checkbox fired the parent's change listener
handleChildCheckboxChange_firingParentChange(d, p, c) ==
    LET parentId == data[p].id
        parentCheckbox == ParentCheckbox(parentId)
        childCheckboxes == ChildCheckboxes(parentId)
    IN IF parentCheckbox = 0 THEN d
       ELSE handleParentCheckboxChange(
                IF hasActiveSearch THEN visibleChildrenRule(d, parentCheckbox, childCheckboxes)
                ELSE allChildrenRule(d, parentCheckbox, childCheckboxes),
                parentCheckbox)

\* the change listener of child checkbox <<p, c>>, d.cm[p][c] already holding the new value
handleChildCheckboxChange(d, p, c) ==
    LET parentId == data[p].id
        parentCheckbox == ParentCheckbox(parentId)
        childCheckboxes == ChildCheckboxes(parentId)
    IN IF parentCheckbox = 0 THEN d
       ELSE updateDropdownHeader(
                IF hasActiveSearch THEN visibleChildrenRule(d, parentCheckbox, childCheckboxes)
                ELSE allChildrenRule(d, parentCheckbox, childCheckboxes))

--------------------------------------------------------------------------
(* Search *)

RECURSIVE recalculateParentStatesForSearch(_, _, _)
\* parentElements.forEach from parent p on, ch the visibility handleSearch has just set
recalculateParentStatesForSearch(d, ch, p) ==
    IF getByNameCheckbox = Undefined \/ p > Len(data) THEN d
    ELSE LET parentId == data[p].id
             q == ParentCheckbox(parentId)
             childCheckboxes == ChildCheckboxes(parentId)
             visible == VisibleOf(ch, childCheckboxes)
             visibleChecked == CheckedOf(d, visible)
             e == IF q = 0 \/ visible = {} THEN d
                  ELSE IF visibleChecked = {}
                  THEN (IF CheckedOf(d, childCheckboxes) = {}
                        THEN SetParent(d, q, FALSE, FALSE) ELSE d)
                  ELSE IF Cardinality(visibleChecked) = Cardinality(visible)
                  THEN SetParent(d, q, TRUE, FALSE)
                  ELSE SetParent(d, q, FALSE, TRUE)
         IN recalculateParentStatesForSearch(e, ch, p + 1)

recalculateOneForAllChildren_anyChecked(d, p) ==
    LET parentId == data[p].id
        q == ParentCheckbox(parentId)
        childCheckboxes == ChildCheckboxes(parentId)
    IN IF q = 0 \/ childCheckboxes = {} THEN d
       ELSE IF CheckedOf(d, childCheckboxes) = {} THEN SetParent(d, q, FALSE, FALSE)
       ELSE SetParent(d, q, TRUE, FALSE)

\* the same without the return for a parent that has no child checkbox
recalculateOneForAllChildren_withoutEmptyReturn(d, p) ==
    LET parentId == data[p].id
        q == ParentCheckbox(parentId)
        childCheckboxes == ChildCheckboxes(parentId)
        checkedChildren == CheckedOf(d, childCheckboxes)
    IN IF q = 0 THEN d
       ELSE IF checkedChildren = {} THEN SetParent(d, q, FALSE, FALSE)
       ELSE IF Cardinality(checkedChildren) = Cardinality(childCheckboxes)
       THEN SetParent(d, q, TRUE, FALSE)
       ELSE SetParent(d, q, FALSE, TRUE)

\* a recalculation that pushed the parent's state down to its children
recalculateOneForAllChildren_pushingDown(d, p) ==
    LET parentId == data[p].id
        q == ParentCheckbox(parentId)
        childCheckboxes == ChildCheckboxes(parentId)
    IN IF q = 0 \/ childCheckboxes = {} THEN d
       ELSE SetChildrenChecked(d, childCheckboxes, d.pm[q].checked)

\* the body of the forEach of recalculateParentStatesForAllChildren, for parent element p
recalculateOneForAllChildren(d, p) ==
    LET parentId == data[p].id
        q == ParentCheckbox(parentId)
        childCheckboxes == ChildCheckboxes(parentId)
        checkedChildren == CheckedOf(d, childCheckboxes)
    IN IF q = 0 \/ childCheckboxes = {} THEN d
       ELSE IF checkedChildren = {} THEN SetParent(d, q, FALSE, FALSE)
       ELSE IF Cardinality(checkedChildren) = Cardinality(childCheckboxes)
       THEN SetParent(d, q, TRUE, FALSE)
       ELSE SetParent(d, q, FALSE, TRUE)

RECURSIVE recalculateParentStatesForAllChildren(_, _)
recalculateParentStatesForAllChildren(d, p) ==
    IF getByNameCheckbox = Undefined \/ p > Len(data) THEN d
    ELSE recalculateParentStatesForAllChildren(recalculateOneForAllChildren(d, p), p + 1)

\* handleSearch(containerId, searchTerm); matchP and matchC are the parents and
\* children whose lower-cased name includes the lower-cased term
handleSearch(d, searchTerm, matchP, matchC) ==
    LET hasTreeView == getByNameChildren # Null
        childVisible(x) == x \in matchC \/ x[1] \in matchP
        showParent(p) == IF hasTreeView
                         THEN p \in matchP \/ \E c \in Kids(p) : <<p, c>> \in matchC
                         ELSE p \in matchP
        ch == [p \in Parents |-> [c \in Kids(p) |->
                 IF searchTerm = "" THEN FALSE ELSE ~childVisible(<<p, c>>)]]
        ph == [p \in Parents |-> IF searchTerm = "" THEN FALSE ELSE ~showParent(p)]
    IN [ph |-> ph, ch |-> ch,
        d |-> IF searchTerm = "" THEN recalculateParentStatesForAllChildren(d, 1)
              ELSE recalculateParentStatesForSearch(d, ch, 1)]

--------------------------------------------------------------------------
(* Bulk toggle and injection: the checkboxes a forEach visits, in document order *)

ParentBox(p) == [kind |-> "parent", p |-> p, c |-> 0]
ChildBox(p, c) == [kind |-> "child", p |-> p, c |-> c]

toProcess_ignoringSearch(hidden, activeSearch) == TRUE

\* during search toggleAllSelections processes only the visible checkboxes
toProcess(hidden, activeSearch) == ~(activeSearch /\ hidden)

RECURSIVE ParentBoxes(_, _)
\* getAllByName(dropdownContainer, 'parent-checkbox'), filtered during search
ParentBoxes(p, activeSearch) ==
    IF p > Len(data) THEN <<>>
    ELSE (IF toProcess(pHidden[p], activeSearch) THEN <<ParentBox(p)>> ELSE <<>>)
         \o ParentBoxes(p + 1, activeSearch)

RECURSIVE ChildBoxes(_, _, _)
\* getAllByName(dropdownContainer, 'child-checkbox'), filtered during search
ChildBoxes(p, c, activeSearch) ==
    IF p > Len(data) THEN <<>>
    ELSE IF c \notin Kids(p) THEN ChildBoxes(p + 1, 1, activeSearch)
    ELSE (IF toProcess(cHidden[p][c], activeSearch) THEN <<ChildBox(p, c)>> ELSE <<>>)
         \o ChildBoxes(p, c + 1, activeSearch)

MarkOf(d, cb) == IF cb.kind = "parent" THEN d.pm[cb.p] ELSE d.cm[cb.p][cb.c]

SetMark(d, cb, m) ==
    IF cb.kind = "parent" THEN [d EXCEPT !.pm[cb.p] = m]
    ELSE [d EXCEPT !.cm[cb.p][cb.c] = m]

\* checkbox.dispatchEvent(new Event('change')): the listener of addCheckboxEventListeners
dispatchChange(d, cb) ==
    IF cb.kind = "parent" THEN handleParentCheckboxChange(d, cb.p)
    ELSE handleChildCheckboxChange(d, cb.p, cb.c)

needsUpdate_checkedOnly(d, cb, shouldSelect) ==
    IF shouldSelect THEN ~MarkOf(d, cb).checked ELSE MarkOf(d, cb).checked

\* shouldSelect ? !checkbox.checked : (checkbox.checked || checkbox.indeterminate)
needsUpdate(d, cb, shouldSelect) ==
    IF shouldSelect THEN ~MarkOf(d, cb).checked
    ELSE (MarkOf(d, cb).checked \/ MarkOf(d, cb).indeterminate)

\* one iteration of the forEach of toggleAllSelections (tree branch)
toggleOne(d, cb, shouldSelect) ==
    LET m == MarkOf(d, cb)
        set == [checked |-> shouldSelect,
                indeterminate |-> IF shouldSelect THEN m.indeterminate ELSE FALSE]
    IN IF needsUpdate(d, cb, shouldSelect) THEN dispatchChange(SetMark(d, cb, set), cb)
       ELSE d

\* the flat branch of toggleAllSelections: no change event is dispatched
toggleAllFlat(d, boxes, shouldSelect) ==
    [d EXCEPT !.pm = [p \in DOMAIN d.pm |->
        IF ParentBox(p) \in { boxes[i] : i \in 1..Len(boxes) }
           /\ (IF shouldSelect THEN ~d.pm[p].checked ELSE d.pm[p].checked)
        THEN [checked |-> shouldSelect,
              indeterminate |-> IF shouldSelect THEN d.pm[p].indeterminate ELSE FALSE]
        ELSE d.pm[p]]]

\* querySelector('[name*="child-checkbox"][data-child-id=...]'): first in document order
ChildCheckbox(childId) ==
    LET hits == { x \in Children : data[x[1]].children[x[2]] = childId }
    IN IF hits = {} THEN <<0, 0>>
       ELSE CHOOSE x \in hits : \A y \in hits :
                x[1] < y[1] \/ (x[1] = y[1] /\ x[2] <= y[2])

\* the identifiers a caller may pass: those of the tree and one of no node (0)
ParentIdPool == {0} \cup { data[p].id : p \in Parents }
ChildIdPool ==
    {0} \cup UNION { { data[p].children[c] : c \in DOMAIN data[p].children } : p \in Parents }

\* the lists of at most n identifiers of pool
Lists(pool, n) == UNION { [1..k -> pool] : k \in 0..n }

--------------------------------------------------------------------------
(* setDDLData as one call.  An identifier stands for its String() form, so the *)
(* number 1 and the string "1" are the same identifier.                       *)

\* String('') and the undefined an empty list yields at index 0: the falsy targets
EmptyString == -1
UndefinedId == -2
Falsy(id) == id \in {EmptyString, UndefinedId}

\* document.getElementById(containerId + '_ddl') finds the instance for its own id only
ContainerId == "DDLcontainer0001"
UnknownContainerId == "DDLcontainer9999"
ContainerIds == {ContainerId, UnknownContainerId}

\* parentCheckbox.checked = true; dispatchEvent(change), if the selector finds one
selectParentById(d, parentId) ==
    LET q == ParentCheckbox(parentId)
    IN IF q = 0 THEN d
       ELSE dispatchChange(SetMark(d, ParentBox(q), [d.pm[q] EXCEPT !.checked = TRUE]),
                           ParentBox(q))

\* childCheckbox.checked = true; dispatchEvent(change), if the selector finds one
selectChildById(d, childId) ==
    LET x == ChildCheckbox(childId)
        cb == ChildBox(x[1], x[2])
    IN IF x[1] = 0 THEN d
       ELSE dispatchChange(SetMark(d, cb, [d.cm[x[1]][x[2]] EXCEPT !.checked = TRUE]), cb)

RECURSIVE selectParents(_, _)
\* parentIds.forEach of setTreeViewMultiSelections
selectParents(d, parentIds) ==
    IF parentIds = <<>> THEN d
    ELSE selectParents(selectParentById(d, Head(parentIds)), Tail(parentIds))

RECURSIVE selectChildren(_, _)
\* childIds.forEach of setTreeViewMultiSelections
selectChildren(d, childIds) ==
    IF childIds = <<>> THEN d
    ELSE selectChildren(selectChildById(d, Head(childIds)), Tail(childIds))

--------------------------------------------------------------------------
(* State machine *)

Idle == [kind |-> "idle", select |-> FALSE]

NoOp == [op |-> "init", via |-> "none", p |-> 0, c |-> 0, s |-> FALSE, done |-> "none"]

NoCall == [op |-> "none"]

\* a page holding this dropdown alone
NoPage == [kind |-> "single"]

\* the rendering is over
NoRender == [pc |-> "rendered"]

Init ==
    /\ data \in Trees
    /\ flags \in [hasSearch : BOOLEAN, hasMultiSelect : {TRUE}, hasTreeView : BOOLEAN]
    /\ pMark = [p \in Parents |-> Unmarked]
    /\ cMark = [p \in Parents |-> [c \in Kids(p) |-> Unmarked]]
    /\ pHidden = [p \in Parents |-> FALSE]
    /\ cHidden = [p \in Parents |-> [c \in Kids(p) |-> FALSE]]
    /\ searchValue = ""
    /\ header = Placeholder
    /\ selected = {}
    /\ run = Idle
    /\ pending = <<>>
    /\ last = NoOp
    /\ call = NoCall
    /\ page = NoPage
    /\ render = NoRender

Commit(d) ==
    /\ pMark' = d.pm
    /\ cMark' = d.cm
    /\ header' = d.hd
    /\ selected' = d.sel
    /\ call' = NoCall
    /\ UNCHANGED <<page, render>>

\* A click on a checkbox: the browser flips checked, clears indeterminate, fires change
ClickParent(p) ==
    /\ run = Idle
    /\ getByNameCheckbox # Undefined
    /\ ~pHidden[p]
    /\ LET s == ~pMark[p].checked
           d == SetParent(Dom, p, s, FALSE)
       IN /\ Commit(handleParentCheckboxChange(d, p))
          /\ last' = [op |-> "parentToggle", via |-> "click", p |-> p, c |-> 0,
                      s |-> s, done |-> "none"]
    /\ UNCHANGED <<data, flags, pHidden, cHidden, searchValue, run, pending>>

ClickChild(p, c) ==
    /\ run = Idle
    /\ getByNameCheckbox # Undefined
    /\ ~pHidden[p] /\ ~cHidden[p][c]
    /\ LET s == ~cMark[p][c].checked
           d == [Dom EXCEPT !.cm[p][c] = [checked |-> s, indeterminate |-> FALSE]]
       IN /\ Commit(handleChildCheckboxChange(d, p, c))
          /\ last' = [op |-> "childToggle", via |-> "click", p |-> p, c |-> c,
                      s |-> s, done |-> "none"]
    /\ UNCHANGED <<data, flags, pHidden, cHidden, searchValue, run, pending>>

\* The match sets a term can have.  Every name includes the empty term.  A child's
\* match is read only to show it and to show its parent, and both are shown anyway
\* when the parent matches, so the children of matching parents are left out.
Matches(searchTerm, matchP, matchC) ==
    IF searchTerm = "" THEN matchP = Parents /\ matchC = Children
    ELSE \A x \in matchC : x[1] \notin matchP

\* the input listener of the search box: handleSearch(containerId, value.trim())
InputSearch(v, matchP, matchC) ==
    /\ run = Idle
    /\ getByNameSearch # Undefined
    /\ LET r == handleSearch(Dom, Trim(v), matchP, matchC)
       IN /\ Commit(r.d)
          /\ pHidden' = r.ph
          /\ cHidden' = r.ch
    /\ searchValue' = v
    /\ last' = [op |-> "search", via |-> "input", p |-> 0, c |-> 0,
                s |-> Trim(v) # "", done |-> "none"]
    /\ UNCHANGED <<data, flags, run, pending>>

\* toggleAllSelections(containerId, shouldSelect) as the Select All / Clear All buttons
\* call it: up to its forEach, and through it when there is nothing to visit
ToggleAllStart(shouldSelect) ==
    /\ run = Idle
    /\ getByNameCheckbox # Undefined
    /\ LET hasTreeView == getByNameChildren # Null
           boxes == IF hasTreeView
                    THEN ParentBoxes(1, hasActiveSearch) \o ChildBoxes(1, 1, hasActiveSearch)
                    ELSE ParentBoxes(1, hasActiveSearch)
           direct == ~hasTreeView \/ boxes = <<>>
           d == IF hasTreeView THEN Dom ELSE toggleAllFlat(Dom, boxes, shouldSelect)
       IN /\ Commit(IF direct THEN updateDropdownHeader(d) ELSE d)
          /\ pending' = IF direct THEN <<>> ELSE boxes
          /\ run' = IF direct THEN Idle ELSE [kind |-> "bulk", select |-> shouldSelect]
          /\ last' = [op |-> "bulkStart", via |-> "bulk", p |-> 0, c |-> 0,
                      s |-> shouldSelect,
                      done |-> IF ~direct THEN "none"
                               ELSE IF shouldSelect THEN "selectAll" ELSE "clearAll"]
    /\ UNCHANGED <<data, flags, pHidden, cHidden, searchValue>>

\* one iteration of the forEach of toggleAllSelections; after the last one the header
ToggleAllStep ==
    /\ run.kind = "bulk"
    /\ LET cb == Head(pending)
           more == Len(pending) > 1
           d == toggleOne(Dom, cb, run.select)
       IN /\ Commit(IF more THEN d ELSE updateDropdownHeader(d))
          /\ pending' = Tail(pending)
          /\ run' = IF more THEN run ELSE Idle
          /\ last' = [op |-> IF ~needsUpdate(Dom, cb, run.select) THEN "skip"
                             ELSE IF cb.kind = "parent" THEN "parentToggle"
                             ELSE "childToggle",
                      via |-> "bulk", p |-> cb.p, c |-> cb.c, s |-> run.select,
                      done |-> IF more THEN "none"
                               ELSE IF run.select THEN "selectAll" ELSE "clearAll"]
    /\ UNCHANGED <<data, flags, pHidden, cHidden, searchValue>>

setFlatMultiSelections_toggle(d, parentIds) ==
    [d EXCEPT !.pm = [p \in DOMAIN d.pm |->
        [d.pm[p] EXCEPT !.checked =
            IF \E i \in 1..Len(parentIds) : ParentCheckbox(parentIds[i]) = p
            THEN ~d.pm[p].checked ELSE FALSE]]]

setFlatMultiSelections_noClear(d, parentIds) ==
    [d EXCEPT !.pm = [p \in DOMAIN d.pm |->
        [d.pm[p] EXCEPT !.checked =
            \/ d.pm[p].checked
            \/ \E i \in 1..Len(parentIds) : ParentCheckbox(parentIds[i]) = p]]]

\* setFlatMultiSelections
setFlatMultiSelections(d, parentIds) ==
    [d EXCEPT !.pm = [p \in DOMAIN d.pm |->
        [d.pm[p] EXCEPT !.checked =
            \E i \in 1..Len(parentIds) : ParentCheckbox(parentIds[i]) = p]]]

\* the clearing loop of setTreeViewMultiSelections
clearAllCheckboxes(d) ==
    [d EXCEPT !.pm = [p \in DOMAIN d.pm |-> Unmarked],
              !.cm = [p \in DOMAIN d.cm |-> [c \in DOMAIN d.cm[p] |-> Unmarked]]]

\* setTreeViewMultiSelections as one call
setTreeViewMultiSelections(d, parentIds, childIds) ==
    selectChildren(selectParents(clearAllCheckboxes(d), parentIds), childIds)

handleSingleSelection_keepPrevious(d, selectedElement) ==
    updateDropdownHeader([d EXCEPT !.sel = d.sel \cup {selectedElement}])

\* handleSingleSelection: 'ddl-selected' off every option, then on the clicked one
handleSingleSelection(d, selectedElement) ==
    updateDropdownHeader([d EXCEPT !.sel = {selectedElement}])

\* the single-select branch of clearAllSelections
clearSingleSelection(d) == [d EXCEPT !.sel = {}, !.hd = Placeholder]

\* the element setSingleSelection looks up: a parent label with data-id targetId that
\* is an option, else a ddl-child element with data-id targetId that is one
TargetElement(targetId) ==
    LET parentElements == { o \in Options : o.c = 0 /\ data[o.p].id = targetId }
        childElements == { o \in Options : o.c # 0 /\ data[o.p].children[o.c] = targetId }
    IN IF parentElements # {} THEN {FirstOption(parentElements)}
       ELSE IF childElements # {} THEN {FirstOption(childElements)}
       ELSE {}

\* setSingleSelection: nothing at all for a falsy targetId
setSingleSelection(d, targetId) ==
    IF Falsy(targetId) THEN d
    ELSE [d EXCEPT !.sel = TargetElement(targetId)]

\* parentIds[0] || childIds[0]
TargetId(parentIds, childIds) ==
    LET first(ids) == IF ids = <<>> THEN UndefinedId ELSE ids[1]
    IN IF ~Falsy(first(parentIds)) THEN first(parentIds) ELSE first(childIds)

resolves_anyId(containerId) == TRUE

\* document.getElementById(containerId + '_ddl') is not null
resolves(containerId) == containerId = ContainerId

\* setDDLData(containerId, {parents, children}): the DOM it leaves and what it returns
setDDLData(d, containerId, parentIds, childIds) ==
    LET hasMultiSelect == getByNameCheckbox # Undefined
        hasTreeView == getByNameChildren # Undefined
        e == IF hasMultiSelect
             THEN (IF hasTreeView THEN setTreeViewMultiSelections(d, parentIds, childIds)
                                  ELSE setFlatMultiSelections(d, parentIds))
             ELSE setSingleSelection(d, TargetId(parentIds, childIds))
    IN IF ~resolves(containerId) THEN [d |-> d, ret |-> FALSE]
       ELSE [d |-> updateDropdownHeader(e), ret |-> TRUE]

\* what getDDLData(containerId) returns
getDDLDataOf(d, containerId) ==
    IF ~resolves(containerId)
    THEN [selected |-> <<>>, hasData |-> FALSE, selectionType |-> Null]
    ELSE getDDLData(d)

\* setDDLData(containerId, {parents, children}) up to the two forEach of
\* setTreeViewMultiSelections, and through them when there is nothing to visit
SetDDLDataStart(parentIds, childIds) ==
    /\ run = Idle
    /\ getByNameCheckbox # Undefined
    /\ LET hasTreeView == getByNameChildren # Undefined
           ids == [i \in 1..Len(parentIds) |-> [kind |-> "parentId", id |-> parentIds[i]]]
                  \o [i \in 1..Len(childIds) |-> [kind |-> "childId", id |-> childIds[i]]]
           direct == ~hasTreeView \/ ids = <<>>
           d == IF hasTreeView THEN clearAllCheckboxes(Dom)
                ELSE setFlatMultiSelections(Dom, parentIds)
       IN /\ Commit(IF direct THEN updateDropdownHeader(d) ELSE d)
          /\ pending' = IF direct THEN <<>> ELSE ids
          /\ run' = IF direct THEN Idle ELSE [kind |-> "inject", select |-> TRUE]
          /\ last' = [op |-> "injectStart", via |-> "inject", p |-> 0, c |-> 0,
                      s |-> TRUE, done |-> IF direct THEN "inject" ELSE "none"]
    /\ UNCHANGED <<data, flags, pHidden, cHidden, searchValue>>

\* one iteration of parentIds.forEach / childIds.forEach; after the last one the header
SetDDLDataStep ==
    /\ run.kind = "inject"
    /\ LET it == Head(pending)
           more == Len(pending) > 1
           q == ParentCheckbox(it.id)
           x == ChildCheckbox(it.id)
           cb == IF it.kind = "parentId" THEN ParentBox(q) ELSE ChildBox(x[1], x[2])
           found == cb.p # 0
           d == IF ~found THEN Dom
                ELSE dispatchChange(
                        SetMark(Dom, cb, [MarkOf(Dom, cb) EXCEPT !.checked = TRUE]), cb)
       IN /\ Commit(IF more THEN d ELSE updateDropdownHeader(d))
          /\ pending' = Tail(pending)
          /\ run' = IF more THEN run ELSE Idle
          /\ last' = [op |-> IF ~found THEN "miss"
                             ELSE IF cb.kind = "parent" THEN "parentToggle"
                             ELSE "childToggle",
                      via |-> "inject", p |-> cb.p, c |-> cb.c, s |-> TRUE,
                      done |-> IF more THEN "none" ELSE "inject"]
    /\ UNCHANGED <<data, flags, pHidden, cHidden, searchValue>>

Next ==
    \/ \E p \in Parents : ClickParent(p)
    \/ \E x \in Children : ClickChild(x[1], x[2])
    \/ \E v \in SearchValues, matchP \in SUBSET Parents, matchC \in SUBSET Children :
            /\ Matches(Trim(v), matchP, matchC)
            /\ InputSearch(v, matchP, matchC)
    \/ \E shouldSelect \in BOOLEAN : ToggleAllStart(shouldSelect)
    \/ ToggleAllStep
    \/ \E parentIds \in Lists(ParentIdPool, MaxListLen),
          childIds \in Lists(ChildIdPool, MaxListLen) :
            /\ Len(parentIds) + Len(childIds) <= MaxListLen
            /\ SetDDLDataStart(parentIds, childIds)
    \/ SetDDLDataStep

Spec == Init /\ [][Next]_vars

--------------------------------------------------------------------------
(* The four selection modes under the API: getDDLData / setDDLData as whole calls *)

InitApi ==
    /\ data \in ApiTrees
    /\ flags \in [hasSearch : BOOLEAN, hasMultiSelect : BOOLEAN, hasTreeView : BOOLEAN]
    /\ pMark = [p \in Parents |-> Unmarked]
    /\ cMark = [p \in Parents |-> [c \in Kids(p) |-> Unmarked]]
    /\ pHidden = [p \in Parents |-> FALSE]
    /\ cHidden = [p \in Parents |-> [c \in Kids(p) |-> FALSE]]
    /\ searchValue = ""
    /\ header = Placeholder
    /\ selected = {}
    /\ run = Idle
    /\ pending = <<>>
    /\ last = NoOp
    /\ call = NoCall
    /\ page = NoPage
    /\ render = NoRender

\* the effect of a whole API call on the DOM, and its record
CommitCall(d, c) ==
    /\ pMark' = d.pm
    /\ cMark' = d.cm
    /\ header' = d.hd
    /\ selected' = d.sel
    /\ call' = c
    /\ last' = NoOp
    /\ UNCHANGED <<data, flags, pHidden, cHidden, searchValue, run, pending, page, render>>

\* a click on a ddl-option of a single-select dropdown
ClickOption(o) ==
    /\ run = Idle
    /\ o \in Options
    /\ ~pHidden[o.p] /\ (o.c # 0 => ~cHidden[o.p][o.c])
    /\ Commit(handleSingleSelection(Dom, o))
    /\ last' = [op |-> "select", via |-> "click", p |-> o.p, c |-> o.c, s |-> TRUE,
                done |-> "none"]
    /\ UNCHANGED <<data, flags, pHidden, cHidden, searchValue, run, pending>>

\* the forEach of toggleAllSelections (tree branch) as a whole
RECURSIVE toggleEach(_, _, _)
toggleEach(d, boxes, shouldSelect) ==
    IF boxes = <<>> THEN d
    ELSE toggleEach(toggleOne(d, Head(boxes), shouldSelect), Tail(boxes), shouldSelect)

\* toggleAllSelections(containerId, shouldSelect) as one call
toggleAllSelections(d, shouldSelect) ==
    LET hasTreeView == getByNameChildren # Null
        boxes == IF hasTreeView
                 THEN ParentBoxes(1, hasActiveSearch) \o ChildBoxes(1, 1, hasActiveSearch)
                 ELSE ParentBoxes(1, hasActiveSearch)
    IN updateDropdownHeader(IF hasTreeView THEN toggleEach(d, boxes, shouldSelect)
                            ELSE toggleAllFlat(d, boxes, shouldSelect))

\* clearAllSelections: toggleAllSelections(containerId, false) when the dropdown has
\* checkboxes, else the single-select branch
clearAllSelections(d) ==
    IF getByNameCheckbox # Undefined THEN toggleAllSelections(d, FALSE)
    ELSE clearSingleSelection(d)

\* a click on the enabled placeholder option: clearAllSelections.  The option is
\* enabled in a single-select dropdown and in a multi-select dropdown created without
\* a Clear All button; that button calls the same toggleAllSelections(containerId,
\* false), so a dropdown without it reaches no state a dropdown with it does not
ClickPlaceholder ==
    /\ run = Idle
    /\ Commit(clearAllSelections(Dom))
    /\ last' = [op |-> "clear", via |-> "click", p |-> 0, c |-> 0, s |-> FALSE,
                done |-> "none"]
    /\ UNCHANGED <<data, flags, pHidden, cHidden, searchValue, run, pending>>

\* the identifiers a caller passes in the API runs; '' is passed to single-select only
ApiParentIds == ParentIdPool \cup (IF flags.hasMultiSelect THEN {} ELSE {EmptyString})
ApiChildIds == ChildIdPool \cup (IF flags.hasMultiSelect THEN {} ELSE {EmptyString})

\* payloads for a single-select dropdown that name a node in the list of the other
\* kind: a child's id as the only parent, a parent's id as the only child
CrossKindPayloads ==
    IF flags.hasMultiSelect THEN {}
    ELSE { <<<<id>>, <<>>>> : id \in ChildIdPool } \cup { <<<<>>, <<id>>>> : id \in ParentIdPool }

Payloads ==
    { s \in Lists(ApiParentIds, MaxIds) \X Lists(ApiChildIds, MaxIds) :
        Len(s[1]) + Len(s[2]) <= MaxIds }
    \cup CrossKindPayloads

\* a host call of setDDLData(containerId, {parents: parentIds, children: childIds})
CallSetDDLData(containerId, parentIds, childIds) ==
    /\ run = Idle
    /\ \E r \in {setDDLData(Dom, containerId, parentIds, childIds)} :
            CommitCall(r.d, [op |-> "set", containerId |-> containerId,
                             parents |-> parentIds, children |-> childIds, ret |-> r.ret])

\* a getter that refreshed the header before it returned
afterGetDDLData_refreshingHeader(d, containerId) ==
    IF resolves_anyId(containerId) THEN updateDropdownHeader(d) ELSE d

\* the DOM after getDDLData(containerId): the function and the extractors it calls
\* (extractDataFromDOM, get*SelectedData) read dataset, checked, indeterminate and
\* textContent and assign nothing
afterGetDDLData(d, containerId) == d

\* a host call of getDDLData(containerId)
CallGetDDLData(containerId) ==
    /\ run = Idle
    /\ CommitCall(afterGetDDLData(Dom, containerId),
                  [op |-> "get", containerId |-> containerId,
                   ret |-> getDDLDataOf(Dom, containerId)])

RECURSIVE Flatten(_)
Flatten(seqs) == IF seqs = <<>> THEN <<>> ELSE Head(seqs) \o Flatten(Tail(seqs))

\* the payload a host builds from a result of getDDLData: the ids of the items as
\* parents, the ids of the children listed under them as children
PayloadOf(ddlData) ==
    LET items == ddlData.selected
    IN [parents |-> [i \in 1..Len(items) |-> items[i].id],
        children |-> IF ddlData.selectionType = "multi-tree"
                     THEN Flatten([i \in 1..Len(items) |-> items[i].children])
                     ELSE <<>>]

\* a host feeding the result of getDDLData back: setDDLData(id, PayloadOf(getDDLData(id)))
RoundTrip ==
    /\ run = Idle
    /\ \E payload \in {PayloadOf(getDDLDataOf(Dom, ContainerId))} :
       \E r \in {setDDLData(Dom, ContainerId, payload.parents, payload.children)} :
            CommitCall(r.d, [op |-> "roundTrip", containerId |-> ContainerId,
                             parents |-> payload.parents, children |-> payload.children,
                             ret |-> r.ret])

NextApi ==
    \/ \E p \in Parents : ClickParent(p)
    \/ \E x \in Children : ClickChild(x[1], x[2])
    \/ \E o \in Options : ClickOption(o)
    \/ ClickPlaceholder
    \/ \E v \in SearchValues, matchP \in SUBSET Parents, matchC \in SUBSET Children :
            /\ Matches(Trim(v), matchP, matchC)
            /\ InputSearch(v, matchP, matchC)
    \/ \E shouldSelect \in BOOLEAN : ToggleAllStart(shouldSelect)
    \/ ToggleAllStep
    \/ \E s \in Payloads : CallSetDDLData(ContainerId, s[1], s[2])
    \/ CallSetDDLData(UnknownContainerId, <<data[1].id>>, <<>>)
    \/ \E containerId \in ContainerIds : CallGetDDLData(containerId)
    \/ RoundTrip

SpecApi == InitApi /\ [][NextApi]_vars

--------------------------------------------------------------------------
(* Strings.  A string is the sequence of its characters; an item identifier free of
   dashes, and the word 'checkbox', count as one character each. *)

Dash == "-"
CheckboxWord == "checkbox"

\* an identifier of the data as JavaScript holds it: a number or a string
Num(n) == [t |-> "number", s |-> <<ToString(n)>>]
Text(chars) == [t |-> "string", s |-> chars]
\* an argument left out
NoId == [t |-> "undefined", s |-> <<>>]

\* the truthiness of an identifier: 0, '' and undefined are falsy
Truthy(id) ==
    /\ id.t # "undefined"
    /\ ~(id.t = "number" /\ id.s = <<"0">>)
    /\ ~(id.t = "string" /\ id.s = <<>>)

\* childId ? `${containerId}-${parentId}-${childId}` : `${containerId}-${parentId}`
generateId(containerId, parentId, childId) ==
    IF Truthy(childId)
    THEN containerId \o <<Dash>> \o parentId.s \o <<Dash>> \o childId.s
    ELSE containerId \o <<Dash>> \o parentId.s

\* the id of the checkbox in the element of that id: `${label.id}-checkbox`
CheckboxIdOf(elementId) == elementId \o <<Dash, CheckboxWord>>

RECURSIVE Split(_)
\* s.split('-')
Split(s) ==
    IF \A i \in 1..Len(s) : s[i] # Dash THEN <<s>>
    ELSE LET i == CHOOSE k \in 1..Len(s) : s[k] = Dash /\ \A j \in 1..(k - 1) : s[j] # Dash
         IN <<SubSeq(s, 1, i - 1)>> \o Split(SubSeq(s, i + 1, Len(s)))

RECURSIVE JoinDash(_)
\* parts.join('-')
JoinDash(parts) ==
    IF parts = <<>> THEN <<>>
    ELSE IF Len(parts) = 1 THEN parts[1]
    ELSE parts[1] \o <<Dash>> \o JoinDash(Tail(parts))

\* s.endsWith('-checkbox')
EndsWithCheckbox(s) == Len(s) >= 2 /\ s[Len(s) - 1] = Dash /\ s[Len(s)] = CheckboxWord

\* s.replace('-checkbox', ''): the first occurrence goes
WithoutCheckbox(s) ==
    LET hits == { k \in 1..(Len(s) - 1) : s[k] = Dash /\ s[k + 1] = CheckboxWord }
    IN IF hits = {} THEN s
       ELSE LET i == CHOOSE k \in hits : \A j \in hits : k <= j
            IN SubSeq(s, 1, i - 1) \o SubSeq(s, i + 2, Len(s))

\* the result of extractContainerIdFromElement when nothing can be extracted
NullId == [null |-> TRUE, id |-> <<>>]

extractContainerIdFromElement(elementId) ==
    IF elementId = <<>> THEN NullId
    ELSE IF ~EndsWithCheckbox(elementId) THEN NullId
    ELSE LET parts == Split(WithoutCheckbox(elementId))
         IN IF Len(parts) < 2 THEN NullId
            ELSE IF Len(parts) \in {2, 3} THEN [null |-> FALSE, id |-> parts[1]]
            ELSE [null |-> FALSE, id |-> JoinDash(SubSeq(parts, 1, Len(parts) - 1))]

--------------------------------------------------------------------------
(* Two dropdowns on one page.  The first is the dropdown of the variables above, a
   multi-select tree whose container id has no dash; the second, page.pm and page.cm,
   is a multi-select tree of one parent (id 1) and one child (id 101) without a search
   box.  A change listener finds its dropdown from the id of the checkbox. *)

MaxPageNodes == 3

Chars(name) == CASE name = "a" -> <<"a">>
                 [] name = "b" -> <<"b">>
                 [] name = "a-b" -> <<"a", Dash, "b">>

\* the container ids of the two dropdowns: distinct strings
PagePairs ==
    { pr \in {"a"} \X {"a", "b", "a-b"} : pr[1] # pr[2] }

OtherParentId == 1
OtherChildId == 101

\* document.getElementById(`${containerId}_ddl`)
ElementById(containerId) ==
    IF containerId = page.mainId THEN "main"
    ELSE IF containerId = page.otherId THEN "other"
    ELSE "none"

\* the dropdown a change listener works on: extractContainerIdFromElement, then
\* `if (!containerId) return;` and `if (!dropdownContainer) return;`
ListenerTarget(checkboxId) ==
    LET r == extractContainerIdFromElement(checkboxId)
    IN IF r.null \/ r.id = <<>> THEN "none" ELSE ElementById(r.id)

MainParentCheckboxId(p) ==
    CheckboxIdOf(generateId(page.mainId, Num(data[p].id), NoId))
MainChildCheckboxId(p, c) ==
    CheckboxIdOf(generateId(page.mainId, Num(data[p].id), Num(data[p].children[c])))
OtherParentCheckboxId ==
    CheckboxIdOf(generateId(page.otherId, Num(OtherParentId), NoId))
OtherChildCheckboxId ==
    CheckboxIdOf(generateId(page.otherId, Num(OtherParentId), Num(OtherChildId)))

\* handleParentCheckboxChange run on the first dropdown for a checkbox of the second:
\* isChecked is read from that checkbox, the children are looked up by parentId
handleForeignParentChange(d, isChecked, parentId) ==
    updateDropdownHeader(
        SetChildrenChecked(d, childrenToUpdate(ChildCheckboxes(parentId)), isChecked))

\* handleChildCheckboxChange run on the first dropdown for a checkbox of the second
handleForeignChildChange(d, parentId) ==
    LET parentCheckbox == ParentCheckbox(parentId)
        childCheckboxes == ChildCheckboxes(parentId)
    IN IF parentCheckbox = 0 THEN d
       ELSE updateDropdownHeader(
                IF hasActiveSearch THEN visibleChildrenRule(d, parentCheckbox, childCheckboxes)
                ELSE allChildrenRule(d, parentCheckbox, childCheckboxes))

\* the dropdown the change listener of a checkbox of the second dropdown works on
listenerTargetOfOther(checkboxId) == ListenerTarget(checkboxId)

\* the change listener of a checkbox of the second dropdown, st = [d, pm, cm] holding
\* the DOM of the first dropdown and the marks of the second, the new value included
otherDispatchChange(st, kind) ==
    IF kind = "parent"
    THEN LET target == listenerTargetOfOther(OtherParentCheckboxId)
         IN IF target = "other" THEN [st EXCEPT !.cm.checked = st.pm.checked]
            ELSE IF target = "main"
            THEN [st EXCEPT !.d = handleForeignParentChange(st.d, st.pm.checked,
                                                            OtherParentId)]
            ELSE st
    ELSE LET target == listenerTargetOfOther(OtherChildCheckboxId)
         IN IF target = "other"
            THEN [st EXCEPT !.pm = [checked |-> st.cm.checked, indeterminate |-> FALSE]]
            ELSE IF target = "main"
            THEN [st EXCEPT !.d = handleForeignChildChange(st.d, OtherParentId)]
            ELSE st

PageState == [d |-> Dom, pm |-> page.pm, cm |-> page.cm]

OtherMark(st, kind) == IF kind = "parent" THEN st.pm ELSE st.cm
SetOtherMark(st, kind, m) ==
    IF kind = "parent" THEN [st EXCEPT !.pm = m] ELSE [st EXCEPT !.cm = m]

\* one iteration of the forEach of toggleAllSelections on the second dropdown
otherToggleOne(st, kind, shouldSelect) ==
    LET m == OtherMark(st, kind)
        update == IF shouldSelect THEN ~m.checked ELSE (m.checked \/ m.indeterminate)
        set == [checked |-> shouldSelect,
                indeterminate |-> IF shouldSelect THEN m.indeterminate ELSE FALSE]
    IN IF update THEN otherDispatchChange(SetOtherMark(st, kind, set), kind) ELSE st

\* one iteration of the forEach of setTreeViewMultiSelections on the second dropdown
otherSelectOne(st, kind) ==
    otherDispatchChange(
        SetOtherMark(st, kind, [OtherMark(st, kind) EXCEPT !.checked = TRUE]), kind)

InitPage ==
    /\ data \in TreesUpTo(MaxPageNodes)
    /\ flags = [hasSearch |-> TRUE, hasMultiSelect |-> TRUE, hasTreeView |-> TRUE]
    /\ pMark = [p \in Parents |-> Unmarked]
    /\ cMark = [p \in Parents |-> [c \in Kids(p) |-> Unmarked]]
    /\ pHidden = [p \in Parents |-> FALSE]
    /\ cHidden = [p \in Parents |-> [c \in Kids(p) |-> FALSE]]
    /\ searchValue = ""
    /\ header = Placeholder
    /\ selected = {}
    /\ run = Idle
    /\ pending = <<>>
    /\ last = NoOp
    /\ call = NoCall
    /\ \E pr \in PagePairs :
            page = [kind |-> "pair", mainId |-> Chars(pr[1]), otherId |-> Chars(pr[2]),
                    pm |-> Unmarked, cm |-> Unmarked]
    /\ render = NoRender

\* the effect of an operation addressed to the second dropdown
CommitPage(st, op) ==
    /\ pMark' = st.d.pm
    /\ cMark' = st.d.cm
    /\ header' = st.d.hd
    /\ selected' = st.d.sel
    /\ page' = [page EXCEPT !.pm = st.pm, !.cm = st.cm]
    /\ last' = [op |-> op, via |-> "other", p |-> 0, c |-> 0, s |-> FALSE, done |-> "none"]
    /\ call' = NoCall
    /\ UNCHANGED <<data, flags, pHidden, cHidden, searchValue, run, pending, render>>

\* a click on a checkbox of the first dropdown; its listener works on the first
MainClickParent(p) ==
    /\ ListenerTarget(MainParentCheckboxId(p)) = "main"
    /\ ClickParent(p)

MainClickChild(p, c) ==
    /\ ListenerTarget(MainChildCheckboxId(p, c)) = "main"
    /\ ClickChild(p, c)

\* a click on a checkbox of the second dropdown
OtherClick(kind) ==
    /\ run = Idle
    /\ LET m == OtherMark(PageState, kind)
           flipped == [checked |-> ~m.checked, indeterminate |-> FALSE]
       IN \E st \in {otherDispatchChange(SetOtherMark(PageState, kind, flipped), kind)} :
            CommitPage(st, IF kind = "parent" THEN "parentToggle" ELSE "childToggle")

\* the Select All / Clear All button of the second dropdown
OtherToggleAll(shouldSelect) ==
    /\ run = Idle
    /\ \E st \in {otherToggleOne(otherToggleOne(PageState, "parent", shouldSelect),
                                  "child", shouldSelect)} :
            CommitPage(st, "bulk")

\* setDDLData(otherId, {parents, children}) with the ids of the second dropdown
OtherSetDDLData(withParent, withChild) ==
    /\ run = Idle
    /\ LET cleared == [PageState EXCEPT !.pm = Unmarked, !.cm = Unmarked]
           afterParents == IF withParent THEN otherSelectOne(cleared, "parent") ELSE cleared
       IN \E st \in {IF withChild THEN otherSelectOne(afterParents, "child")
                     ELSE afterParents} :
            CommitPage(st, "inject")

NextPage ==
    \/ \E p \in Parents : MainClickParent(p)
    \/ \E x \in Children : MainClickChild(x[1], x[2])
    \/ \E v \in SearchValues, matchP \in SUBSET Parents, matchC \in SUBSET Children :
            /\ Matches(Trim(v), matchP, matchC)
            /\ InputSearch(v, matchP, matchC)
    \/ \E shouldSelect \in BOOLEAN : ToggleAllStart(shouldSelect)
    \/ ToggleAllStep
    \/ \E parentIds \in Lists(ParentIdPool, MaxListLen),
          childIds \in Lists(ChildIdPool, MaxListLen) :
            /\ Len(parentIds) + Len(childIds) <= MaxListLen
            /\ SetDDLDataStart(parentIds, childIds)
    \/ SetDDLDataStep
    \/ \E kind \in {"parent", "child"} : OtherClick(kind)
    \/ \E shouldSelect \in BOOLEAN : OtherToggleAll(shouldSelect)
    \/ \E withParent, withChild \in BOOLEAN : OtherSetDDLData(withParent, withChild)

SpecPage == InitPage /\ [][NextPage]_vars

--------------------------------------------------------------------------
(* initialize and renderOptions.  The flags are those initialize keeps; the ids are
   generated node by node in the order of the two forEach, and the earlier version of
   the control (validateId, usedIds) tracks them. *)

MaxRenderNodes == 3
MaxPasses == 2

FlagNames == {"search", "multiSelect", "treeView", "selectAllBtn", "clearAllBtn"}

\* the identifiers of the data to render: numbers, 0 among them
IdValues == {Num(0), Num(1), Num(2)}

\* the data to render: at most MaxParents parents and MaxRenderNodes nodes, any ids
RenderData ==
    UNION { { [i \in 1..n |-> [id |-> ids[i], children |-> kids[i]]] :
                ids \in [1..n -> IdValues],
                kids \in { k \in [1..n -> Lists(IdValues, MaxRenderNodes - 1)] :
                            NodeCount([i \in 1..n |-> Len(k[i])], n) <= MaxRenderNodes } } :
            n \in 1..MaxParents }

\* the flags argument: in the shape of the README, {multiSelect: {enabled: b}, ...},
\* or in the shape {hasMultiSelect: b, ...}
FlagShapes == {"documented", "has"}

\* params.flags?.hasSearch, params.flags?.hasMultiSelect, ...
HasFlagOf(params, name) ==
    IF params.shape = "has" THEN [t |-> "boolean", b |-> params.given[name]]
    ELSE [t |-> "undefined", b |-> FALSE]

\* getStrictBoolean: value === true
getStrictBoolean(value) == value.t = "boolean" /\ value.b

\* settings.flags as initialize builds them
settingsFlags(params) == [name \in FlagNames |-> getStrictBoolean(HasFlagOf(params, name))]

\* the nodes renderOptions generates an id for, in the order of data.forEach and
\* parent.children.forEach; children only in a tree view
RECURSIVE NodesToRender(_, _, _)
NodesToRender(renderData, hasTreeView, p) ==
    IF p > Len(renderData) THEN <<>>
    ELSE <<[kind |-> "parent", p |-> p, c |-> 0]>>
         \o (IF hasTreeView
             THEN [c \in 1..Len(renderData[p].children) |-> [kind |-> "child", p |-> p, c |-> c]]
             ELSE <<>>)
         \o NodesToRender(renderData, hasTreeView, p + 1)

\* the arguments of generateId for a node
ParentIdOf(node) == render.params.data[node.p].id
ChildIdOf(node) ==
    IF node.kind = "child" THEN render.params.data[node.p].children[node.c] ELSE NoId

resetIdTracker_keeping(usedIds) == usedIds

\* usedIds.clear()
resetIdTracker(usedIds) == {}

\* validateId(generatedId, ...): false for an id already in usedIds, else it is added
validateId(usedIds, generatedId) ==
    IF generatedId \in usedIds THEN [valid |-> FALSE, usedIds |-> usedIds]
    ELSE [valid |-> TRUE, usedIds |-> usedIds \cup {generatedId}]

\* the container ids initialize is given: one free of the separator, one with it
RenderContainerIds == {Chars("a"), Chars("a-b")}

InitRender ==
    /\ data = <<[id |-> 1, children |-> <<>>]>>
    /\ flags = [hasSearch |-> FALSE, hasMultiSelect |-> FALSE, hasTreeView |-> FALSE]
    /\ pMark = [p \in Parents |-> Unmarked]
    /\ cMark = [p \in Parents |-> [c \in Kids(p) |-> Unmarked]]
    /\ pHidden = [p \in Parents |-> FALSE]
    /\ cHidden = [p \in Parents |-> [c \in Kids(p) |-> FALSE]]
    /\ searchValue = ""
    /\ header = Placeholder
    /\ selected = {}
    /\ run = Idle
    /\ pending = <<>>
    /\ last = NoOp
    /\ call = NoCall
    /\ page = NoPage
    /\ \E renderData \in RenderData, shape \in FlagShapes, given \in [FlagNames -> BOOLEAN],
          containerId \in RenderContainerIds :
            render = [pc |-> "params",
                      params |-> [containerId |-> containerId, data |-> renderData,
                                  shape |-> shape, given |-> given],
                      flags |-> [name \in FlagNames |-> FALSE],
                      todo |-> <<>>, usedIds |-> {}, out |-> <<>>, pass |-> 0]

DomUnchanged ==
    UNCHANGED <<data, flags, pMark, cMark, pHidden, cHidden, searchValue, header,
                selected, run, pending, last, call, page>>

\* initialize(params) up to the call of renderBase
Initialize ==
    /\ render.pc = "params"
    /\ render' = [render EXCEPT !.pc = "start", !.flags = settingsFlags(render.params)]
    /\ DomUnchanged

\* renderOptions up to its forEach: the tracker is reset
RenderOptionsStart ==
    /\ render.pc = "start"
    /\ LET todo == NodesToRender(render.params.data, render.flags["treeView"], 1)
       IN render' = [render EXCEPT !.pc = IF todo = <<>> THEN "rendered" ELSE "rendering",
                                   !.todo = todo,
                                   !.usedIds = resetIdTracker(render.usedIds),
                                   !.out = <<>>,
                                   !.pass = render.pass + 1]
    /\ DomUnchanged

\* one node of the forEach: its element gets the generated id and is appended
RenderNode ==
    /\ render.pc = "rendering"
    /\ LET node == Head(render.todo)
           generatedId == generateId(render.params.containerId, ParentIdOf(node),
                                     ChildIdOf(node))
           v == validateId(render.usedIds, generatedId)
       IN render' = [render EXCEPT
                        !.pc = IF Len(render.todo) = 1 THEN "rendered" ELSE "rendering",
                        !.todo = Tail(render.todo),
                        !.usedIds = v.usedIds,
                        !.out = Append(render.out,
                                       [kind |-> node.kind, p |-> node.p, c |-> node.c,
                                        id |-> generatedId, valid |-> v.valid])]
    /\ DomUnchanged

\* the dropdown is rendered again from the same settings
RenderAgain ==
    /\ render.pc = "rendered"
    /\ render.pass < MaxPasses
    /\ render' = [render EXCEPT !.pc = "start"]
    /\ DomUnchanged

NextRender ==
    \/ Initialize
    \/ RenderOptionsStart
    \/ RenderNode
    \/ RenderAgain

SpecRender == InitRender /\ [][NextRender]_vars

--------------------------------------------------------------------------
(* Opening and closing.  Several dropdowns on one page, each with the 'open' mark of
   its wrapper and the 'hidden' mark of its options list; page holds them, the
   variables of the first dropdown above stay as rendered. *)

MaxInstances == 3
MaxOptions == 2

Instances == 1..MaxInstances

\* closeDropdown(ddlWrapper, optionsContainer)
closeDropdown(st, i) == [st EXCEPT !.hidden[i] = TRUE, !.open[i] = FALSE]

\* openDropdown(ddlWrapper, optionsContainer)
openDropdown(st, i) == [st EXCEPT !.hidden[i] = FALSE, !.open[i] = TRUE]

RECURSIVE closeEach(_, _)
closeEach(st, S) ==
    IF S = {} THEN st
    ELSE LET i == CHOOSE j \in S : TRUE IN closeEach(closeDropdown(st, i), S \ {i})

closeAllOtherDropdowns_keeping(st, currentWrapper) == st

\* closeAllOtherDropdowns(currentWrapper): every other wrapper marked 'open' is closed
closeAllOtherDropdowns(st, currentWrapper) ==
    closeEach(st, { i \in Instances : i # currentWrapper /\ st.open[i] })

\* toggleDropdown(ddlWrapper, optionsContainer)
toggleDropdown(st, i) ==
    IF st.hidden[i] THEN openDropdown(closeAllOtherDropdowns(st, i), i)
    ELSE closeDropdown(st, i)

\* createOptionsContainer names the list 'ddl-options hidden', createDropdownWrapper
\* names the wrapper 'custom-ddl'
InitOpen ==
    /\ data = <<[id |-> 1, children |-> <<>>]>>
    /\ flags = [hasSearch |-> FALSE, hasMultiSelect |-> FALSE, hasTreeView |-> FALSE]
    /\ pMark = [p \in Parents |-> Unmarked]
    /\ cMark = [p \in Parents |-> [c \in Kids(p) |-> Unmarked]]
    /\ pHidden = [p \in Parents |-> FALSE]
    /\ cHidden = [p \in Parents |-> [c \in Kids(p) |-> FALSE]]
    /\ searchValue = ""
    /\ header = Placeholder
    /\ selected = {}
    /\ run = Idle
    /\ pending = <<>>
    /\ last = NoOp
    /\ call = NoCall
    /\ render = NoRender
    /\ \E multi \in [Instances -> BOOLEAN] :
            page = [kind |-> "open", hasMultiSelect |-> multi,
                    open |-> [i \in Instances |-> FALSE],
                    hidden |-> [i \in Instances |-> TRUE],
                    sel |-> [i \in Instances |-> {}],
                    op |-> "init", at |-> 0, closed |-> {}]

\* the marks and selections an event leaves on the page, the event, and the dropdowns
\* it closed
CommitOpen(st, sel, op, i) ==
    /\ page' = [page EXCEPT !.open = st.open, !.hidden = st.hidden, !.sel = sel,
                            !.op = op, !.at = i,
                            !.closed = { j \in Instances : page.open[j] /\ ~st.open[j] }]
    /\ UNCHANGED <<data, flags, pMark, cMark, pHidden, cHidden, searchValue, header,
                   selected, run, pending, last, call, render>>

\* a click on the header of dropdown i (the listener stops the propagation)
HeaderClick(i) ==
    /\ i \in Instances
    /\ CommitOpen(toggleDropdown(page, i), page.sel, "header", i)

\* a click that reaches document: every dropdown whose wrapper does not contain the
\* target closes itself; inside is the wrapper clicked in, 0 for none
DocumentClick(inside) ==
    /\ inside \in Instances \cup {0}
    /\ CommitOpen(closeEach(page, Instances \ {inside}), page.sel, "document", inside)

\* a click on option o of the open single-select dropdown i: handleSingleSelection
SingleOptionClick(i, o) ==
    /\ ~page.hasMultiSelect[i] /\ ~page.hidden[i]
    /\ CommitOpen(closeDropdown(page, i), [page.sel EXCEPT ![i] = {o}], "select", i)

\* a click on checkbox o of the open multi-select dropdown i: the list stays as it is
CheckboxClick(i, o) ==
    /\ page.hasMultiSelect[i] /\ ~page.hidden[i]
    /\ CommitOpen(page, [page.sel EXCEPT ![i] = IF o \in @ THEN @ \ {o} ELSE @ \cup {o}],
                  "check", i)

\* a click on the enabled placeholder option of the open dropdown i
PlaceholderClick(i) ==
    /\ ~page.hidden[i]
    /\ CommitOpen(closeDropdown(page, i), [page.sel EXCEPT ![i] = {}], "placeholder", i)

NextOpen ==
    \/ \E i \in Instances : HeaderClick(i)
    \/ \E inside \in Instances \cup {0} : DocumentClick(inside)
    \/ \E i \in Instances, o \in 1..MaxOptions : SingleOptionClick(i, o)
    \/ \E i \in Instances, o \in 1..MaxOptions : CheckboxClick(i, o)
    \/ \E i \in Instances : PlaceholderClick(i)

SpecOpen == InitOpen /\ [][NextOpen]_vars

--------------------------------------------------------------------------
(* Properties *)

KidsOf(p) == { <<p, c>> : c \in Kids(p) }
IsChecked(x) == cMark[x[1]][x[2]].checked
IsHidden(x) == cHidden[x[1]][x[2]]
VisibleKids(p) == { x \in KidsOf(p) : ~IsHidden(x) }
HiddenKids(p) == { x \in KidsOf(p) : IsHidden(x) }

MarkChecked == [checked |-> TRUE, indeterminate |-> FALSE]
MarkIndeterminate == [checked |-> FALSE, indeterminate |-> TRUE]
BoolMark(s) == [checked |-> s, indeterminate |-> FALSE]

MultiTree == getDDLData(Dom).selectionType = "multi-tree"

\* the mark the Children->Parent rule derives from the boxes S
Derived(S) ==
    IF \A x \in S : ~IsChecked(x) THEN Unmarked
    ELSE IF \A x \in S : IsChecked(x) THEN MarkChecked
    ELSE MarkIndeterminate

C2_ParentMarkExact ==
    last.op = "parentToggle" => pMark[last.p] = BoolMark(last.s)

\* C3: a parent toggle to s leaves every child in scope with mark s: all children of
\* the parent when no filter is active, its visible children when one is, and then
\* every hidden child of the parent keeps its mark.
C3_ParentToChildren ==
    [][last'.op = "parentToggle" =>
        \A x \in KidsOf(last'.p) :
            IF hasActiveSearch /\ IsHidden(x)
            THEN cMark'[x[1]][x[2]] = cMark[x[1]][x[2]]
            ELSE cMark'[x[1]][x[2]] = BoolMark(last'.s)]_vars

C3_Witness ==
    /\ last.op = "parentToggle" /\ hasActiveSearch
    /\ \E x \in VisibleKids(last.p) : IsChecked(x) = last.s
    /\ \E x \in HiddenKids(last.p) : IsChecked(x) # last.s

\* C4: while a filter is active, neither a child toggle nor a search recalculation
\* changes a parent to unchecked when one of its hidden children is checked; when no
\* visible child is checked and some hidden child is, the parent's mark stays as it was.
C4_VisibilityPreservation ==
    [][(last'.op \in {"childToggle", "search"} /\ hasActiveSearch') =>
        \A P \in Parents :
            LET kids == { x \in KidsOf(P) : cMark'[x[1]][x[2]].checked }
                hiddenChecked == { x \in kids : cHidden'[x[1]][x[2]] }
                visibleChecked == kids \ hiddenChecked
            IN /\ hiddenChecked # {} =>
                    ~(pMark'[P] = Unmarked /\ pMark[P] # Unmarked)
               /\ (hiddenChecked # {} /\ visibleChecked = {}) => pMark'[P] = pMark[P]]_vars

C4_Witness ==
    /\ last.op = "childToggle" /\ hasActiveSearch /\ ~last.s
    /\ ~IsHidden(<<last.p, last.c>>)
    /\ \A x \in VisibleKids(last.p) : ~IsChecked(x)
    /\ \E x \in HiddenKids(last.p) : IsChecked(x)
    /\ pMark[last.p] # Unmarked

\* C5: while a filter is active, after a child toggle and after every search-text
\* change, each parent with a visible child is checked if all its visible children are
\* checked, indeterminate if some but not all of them are, unchecked if none of its
\* children is checked; a parent with no visible child keeps its mark.
C5_VisibleOnlyDerivation ==
    [][(last'.op \in {"childToggle", "search"} /\ hasActiveSearch') =>
        \A P \in Parents :
            LET visible == { x \in KidsOf(P) : ~cHidden'[x[1]][x[2]] }
                checkedKids == { x \in KidsOf(P) : cMark'[x[1]][x[2]].checked }
            IN IF visible = {} THEN pMark'[P] = pMark[P]
               ELSE /\ visible \subseteq checkedKids => pMark'[P] = MarkChecked
                    /\ (visible \cap checkedKids # {} /\ ~(visible \subseteq checkedKids))
                            => pMark'[P] = MarkIndeterminate
                    /\ checkedKids = {} => pMark'[P] = Unmarked]_vars

\* C6: when the search text becomes empty, every parent with a child ends with the
\* mark derived from all its children.
C6_ClearedFilterRecalculation ==
    (last.op = "search" /\ ~last.s) =>
        \A P \in Parents : KidsOf(P) # {} => pMark[P] = Derived(KidsOf(P))

C6_Witness ==
    /\ last.op = "search" /\ ~last.s
    /\ \E P \in Parents : pMark[P] = MarkIndeterminate
    /\ \E P \in Parents : KidsOf(P) # {} /\ pMark[P] = MarkChecked

\* C7: a bulk select-all or clear-all issued while a filter is active changes no mark
\* of a hidden parent or of a hidden child.
C7_BulkRespectsSearch ==
    [][(last'.via = "bulk" /\ hasActiveSearch) =>
        /\ \A P \in Parents : pHidden[P] => pMark'[P] = pMark[P]
        /\ \A x \in Children : IsHidden(x) => cMark'[x[1]][x[2]] = cMark[x[1]][x[2]]]_vars

C7_Witness ==
    /\ last.done = "selectAll" /\ hasActiveSearch /\ MultiTree
    /\ Len(data) = 2
    /\ pHidden[1] /\ pMark[1] = Unmarked
    /\ ~pHidden[2] /\ pMark[2] = MarkChecked
    /\ VisibleKids(2) # {} /\ \A x \in VisibleKids(2) : IsChecked(x)

\* C8: in multi-tree mode with no active filter, after select-all every parent and
\* every child is checked and no parent is indeterminate.
C8_SelectAllValid ==
    (MultiTree /\ ~hasActiveSearch /\ last.done = "selectAll") =>
        /\ \A P \in Parents : pMark[P] = MarkChecked
        /\ \A x \in Children : IsChecked(x)

\* C9: after clear-all every processed node (every node when no filter is active, the
\* visible nodes when one is) is unchecked and no processed parent is indeterminate.
C9_ClearAllClears ==
    last.done = "clearAll" =>
        /\ \A P \in Parents : (~hasActiveSearch \/ ~pHidden[P]) => pMark[P] = Unmarked
        /\ \A x \in Children :
                (~hasActiveSearch \/ ~IsHidden(x)) => cMark[x[1]][x[2]] = Unmarked

C9_Witness ==
    /\ last.done = "clearAll" /\ hasActiveSearch
    /\ \E P \in Parents :
            /\ ~pHidden[P] /\ pMark[P] = Unmarked
            /\ VisibleKids(P) # {}
            /\ \E x \in HiddenKids(P) : IsChecked(x)

\* C10: in multi-tree mode getSelection returns, in tree order, one entry for exactly
\* the parents that are checked or have a checked child, each listing exactly that
\* parent's checked children (none when the parent is checked with no checked child).
C10_TreeExtraction ==
    MultiTree =>
        LET sel == getDDLData(Dom).selected
            shown == { P \in Parents : pMark[P].checked \/ \E x \in KidsOf(P) : IsChecked(x) }
            pos(P) == Cardinality({ Q \in shown : Q <= P })
        IN /\ Len(sel) = Cardinality(shown)
           /\ \A P \in shown :
                /\ sel[pos(P)].id = data[P].id
                /\ sel[pos(P)].children =
                     SelectSeq(data[P].children,
                               LAMBDA id : \E x \in KidsOf(P) :
                                    data[P].children[x[2]] = id /\ IsChecked(x))

C10_Witness ==
    /\ MultiTree /\ Len(data[1].children) = 2
    /\ pMark[1] = MarkIndeterminate
    /\ getDDLData(Dom).selected = <<[id |-> 1, children |-> <<101>>]>>
    /\ header = <<"1", "<-", "101">>

Childless == { p \in Parents : Kids(p) = {} }

\* C24: only parents that have children hold the indeterminate mark: no child is ever
\* indeterminate, a parent without children is never indeterminate, and the mark of
\* such a parent changes only by its own toggle (a click, or the change a bulk action
\* or an injection makes to it), never when another node is toggled or the search
\* text changes
C24_IndeterminateOnlyOnParents ==
    /\ [](/\ \A x \in Children : ~cMark[x[1]][x[2]].indeterminate
          /\ \A p \in Childless : ~pMark[p].indeterminate)
    /\ [][\A p \in Childless :
            pMark'[p] # pMark[p] =>
                \/ last'.op \in {"bulkStart", "injectStart"}
                \/ last'.op = "parentToggle" /\ last'.p = p]_vars

\* the filter was cleared on a tree holding a checked parent without children next to
\* an indeterminate parent
C24_Witness ==
    /\ last.op = "search" /\ ~hasActiveSearch
    /\ getByNameChildren # Undefined
    /\ \E p \in Childless : pMark[p].checked
    /\ \E q \in Parents : pMark[q].indeterminate

\* C25: propagation is idempotent.  In every reachable state, filtered or not: handling
\* the change of a parent checkbox twice (same parent, same value, same visibility)
\* leaves the marks and the header that handling it once leaves, for either value of
\* the checkbox; handling the change of a child checkbox again, child marks and
\* visibility unchanged, leaves the parent's mark as it is; and the state a handler
\* has just left is one that running it again does not change
C25_PropagationIdempotent ==
    /\ \A p \in Parents : \A s \in BOOLEAN :
            LET once == handleParentCheckboxChange([Dom EXCEPT !.pm[p].checked = s], p)
            IN handleParentCheckboxChange(once, p) = once
    /\ \A x \in Children :
            LET once == handleChildCheckboxChange(Dom, x[1], x[2])
            IN handleChildCheckboxChange(once, x[1], x[2]) = once
    /\ last.op = "parentToggle" => handleParentCheckboxChange(Dom, last.p) = Dom
    /\ last.op = "childToggle" => handleChildCheckboxChange(Dom, last.p, last.c) = Dom

\* a parent toggle was handled under a filter and left a hidden child of that parent
\* with another value than the visible ones
C25_Witness ==
    /\ last.op = "parentToggle" /\ last.s
    /\ hasActiveSearch
    /\ \E x \in VisibleKids(last.p) : IsChecked(x)
    /\ \E x \in HiddenKids(last.p) : ~IsChecked(x)

\* one iteration of the forEach of a bulk action or of an injection
\* C30: in multi-select tree mode, right after a child toggle is handled the child's
\* parent is checked if any of its children is selected and unchecked if none is
C30_ParentCheckedOnAnyChild ==
    (MultiTree /\ last.op = "childToggle") =>
        (pMark[last.p].checked <=> \E x \in KidsOf(last.p) : IsChecked(x))

\* C32: in multi-select tree mode, in every state between operations in which no
\* search filter is active, each parent with at least one child is checked iff all
\* its children are checked, indeterminate iff some but not all are, and never both
C32_ParentMarkDerived ==
    (MultiTree /\ ~hasActiveSearch /\ run = Idle) =>
        \A p \in Parents : KidsOf(p) # {} => pMark[p] = Derived(KidsOf(p))

ForEachStep == run.kind # "idle" /\ pending' = Tail(pending)

\* the forEach is synchronous: once started it runs through
SpecLive == Init /\ [][Next]_vars /\ WF_pending(ForEachStep)

HandledParent == last'.op = "parentToggle"
HandledChild == last'.op = "childToggle"

\* C26: every operation is one bounded pass.  A bulk action or an injection visits each
\* checkbox or identifier of its list once, one handler run per visit, and ends.  The
\* run of the parent's change handler leaves the parent checkbox at the value it was
\* given and changes no other parent (no child handler ran); the run of a child's
\* change handler leaves that child at the value it was given and changes no other
\* child (no parent handler ran).
C26_SingleBoundedPass ==
    /\ [][run.kind # "idle" => pending' = Tail(pending)]_vars
    /\ [][HandledParent =>
            /\ pMark'[last'.p].checked = last'.s
            /\ \A q \in Parents \ {last'.p} : pMark'[q] = pMark[q]]_vars
    /\ [][HandledChild =>
            /\ cMark'[last'.p][last'.c].checked = last'.s
            /\ \A x \in Children \ {<<last'.p, last'.c>>} :
                    cMark'[x[1]][x[2]] = cMark[x[1]][x[2]]]_vars
    /\ (run.kind # "idle") ~> (run = Idle)

\* Select All ran through a tree with at least two children and ended with the
\* handler of a child checkbox
C26_Witness ==
    /\ run = Idle
    /\ last.done = "selectAll" /\ last.op = "childToggle"
    /\ Cardinality(Children) >= 2
    /\ \A x \in Children : IsChecked(x)

--------------------------------------------------------------------------
(* Properties of the API (SpecApi) *)

MultiFlat == getDDLData(Dom).selectionType = "multi-flat"
SingleSelect == getDDLData(Dom).selectionType \in {"single-flat", "single-tree"}

IdOf(x) == data[x[1]].children[x[2]]
InList(id, ids) == \E i \in 1..Len(ids) : ids[i] = id

\* no identifier occurs twice among the children of the tree
UniqueIds == \A x, y \in Children : IdOf(x) = IdOf(y) => x = y

\* setDDLData has just run on the instance
SetDone == call.op = "set" /\ call.containerId = ContainerId

\* C11: in multi-tree mode with no filter and unique ids, after setSelection({parents: A,
\* children: B}) a child is checked iff its id is in B, a childless parent is checked
\* iff its id is in A, and every parent with children has the mark derived from them.
C11_InjectionMarks ==
    (SetDone /\ MultiTree /\ ~hasActiveSearch /\ UniqueIds) =>
        /\ \A x \in Children : IsChecked(x) <=> InList(IdOf(x), call.children)
        /\ \A P \in Parents :
                IF KidsOf(P) = {}
                THEN pMark[P] = BoolMark(InList(data[P].id, call.parents))
                ELSE pMark[P] = Derived(KidsOf(P))

\* C12: after setSelection every child whose id is in `children` is checked, also when
\* two children under different parents carry that id.
C12_EveryMatchChecked ==
    (SetDone /\ MultiTree /\ ~hasActiveSearch) =>
        \A x \in Children : InList(IdOf(x), call.children) => IsChecked(x)

\* C13: in a multi-select instance with no active filter, feeding the result of
\* getSelection back through setSelection leaves every checked/indeterminate mark as it
\* was, and getSelection returns what it returned before.
C13_RoundTrip ==
    [][(call'.op = "roundTrip" /\ flags.hasMultiSelect /\ ~hasActiveSearch) =>
            /\ pMark' = pMark
            /\ cMark' = cMark
            /\ getDDLData(Dom)' = getDDLData(Dom)]_vars

\* C14: in every mode, right after setSelection with a payload, a second setSelection
\* with the same payload leaves the checked, indeterminate and single-selected marks
\* as the first call left them.
C14_Idempotent ==
    call.op = "set" =>
        LET again == setDDLData(Dom, call.containerId, call.parents, call.children).d
        IN again.pm = pMark /\ again.cm = cMark /\ again.sel = selected

C14_Witness ==
    /\ SetDone /\ MultiTree
    /\ call.children # <<>>
    /\ \E P \in Parents : pMark[P] = MarkIndeterminate

\* C15: in multi-flat mode, after setSelection({parents: A, children: B}) the checked
\* parents are exactly those whose id is in A, whatever B holds, and getSelection
\* returns exactly them as {id, name} in tree order.
C15_FlatInjection ==
    (SetDone /\ MultiFlat) =>
        /\ \A P \in Parents : pMark[P].checked <=> InList(data[P].id, call.parents)
        /\ getDDLData(Dom).selected =
                SelectSeq([p \in 1..Len(data) |-> [id |-> data[p].id, name |-> ParentName(p)]],
                          LAMBDA item : InList(item.id, call.parents))

C15_Witness ==
    /\ SetDone /\ MultiFlat
    /\ call.parents = <<2>> /\ call.children = <<101>>
    /\ pMark[2].checked /\ ~pMark[1].checked
    /\ getDDLData(Dom).selected = <<[id |-> 2, name |-> "B"]>>

OptionId(o) == IF o.c = 0 THEN data[o.p].id ELSE data[o.p].children[o.c]
OptionName(o) == IF o.c = 0 THEN ParentName(o.p) ELSE ChildName(o.p, o.c)

\* C16: in the single-select modes at most one option is selected in every reachable
\* state, a click selects the clicked option alone, getSelection returns at most one
\* item, the item of the selected option, and for a selected child in tree mode the
\* item carries {id, name} of the child's own parent.
C16_SingleSelection ==
    SingleSelect =>
        LET items == getDDLData(Dom).selected
        IN /\ Cardinality(selected) <= 1
           /\ Len(items) = Cardinality(selected)
           /\ last.op = "select" => selected = {[p |-> last.p, c |-> last.c]}
           /\ \A o \in selected :
                /\ items[1].id = OptionId(o)
                /\ items[1].name = OptionName(o)
                /\ o.c # 0 => items[1].parent = [id |-> data[o.p].id,
                                                   name |-> ParentName(o.p)]

C16_Witness ==
    /\ last.op = "select" /\ last.p = 2 /\ last.c = 0
    /\ getDDLData(Dom) = [selected |-> <<[id |-> 2, name |-> "B", type |-> "parent"]>>,
                          hasData |-> TRUE, selectionType |-> "single-flat"]

\* the target the specification gives a single-select setSelection: the first entry of
\* `parents` when there is one, else the first entry of `children`
FirstEntry(parentIds, childIds) ==
    IF parentIds # <<>> THEN parentIds[1] ELSE childIds[1]

\* C17: in the single-select modes every setSelection clears the existing selection
\* first: an option selected before the call is selected after it only if the payload
\* names it, so none stays selected when both lists are empty or name no option.
C17_SetClearsFirst ==
    [][(call'.op = "set" /\ call'.containerId = ContainerId /\ SingleSelect) =>
        \A o \in selected \cap selected' :
            InList(OptionId(o), call'.parents) \/ InList(OptionId(o), call'.children)]_vars

\* C18: in the single-select modes setSelection with a non-empty payload selects the
\* option found for the first entry of `parents` when `parents` is not empty, and for
\* the first entry of `children` otherwise; no other entry has an influence.
C18_ParentPrecedence ==
    (SetDone /\ SingleSelect /\ (call.parents # <<>> \/ call.children # <<>>)) =>
        selected = TargetElement(FirstEntry(call.parents, call.children))

MatchesParent(id) == \E P \in Parents : data[P].id = id
MatchesChild(id) == \E x \in Children : IdOf(x) = id

\* C19: in every mode setSelection on the instance returns true and ends in the marks
\* the same call ends in once the ids that match no node are removed from its payload.
C19_UnknownIdsIgnored ==
    [][(call'.op = "set" /\ call'.containerId = ContainerId) =>
        LET cleaned == setDDLData(Dom, ContainerId,
                                  SelectSeq(call'.parents, MatchesParent),
                                  SelectSeq(call'.children, MatchesChild)).d
        IN /\ call'.ret = TRUE
           /\ pMark' = cleaned.pm /\ cMark' = cleaned.cm /\ selected' = cleaned.sel]_vars

\* C20: for a containerId that resolves to no instance getSelection returns no items,
\* hasData false and no mode, setSelection returns false, and neither changes a mark,
\* the visibility or the header; setSelection returns true when the container resolves.
C20_UnknownContainer ==
    [][/\ (call'.op = "get" /\ call'.containerId = UnknownContainerId) =>
            call'.ret = [selected |-> <<>>, hasData |-> FALSE, selectionType |-> Null]
       /\ call'.op = "set" => (call'.ret <=> call'.containerId = ContainerId)
       /\ (call'.op \in {"get", "set"} /\ call'.containerId = UnknownContainerId) =>
            UNCHANGED <<pMark, cMark, selected, pHidden, cHidden, searchValue, header>>]_vars

C20_Witness ==
    /\ call.op = "set" /\ call.containerId = UnknownContainerId /\ call.ret = FALSE
    /\ MultiTree /\ \E P \in Parents : pMark[P] = MarkIndeterminate


ModeOfFlags ==
    IF flags.hasMultiSelect
    THEN (IF flags.hasTreeView THEN "multi-tree" ELSE "multi-flat")
    ELSE (IF flags.hasTreeView THEN "single-tree" ELSE "single-flat")

\* C23: the mode getDDLData reports is the one of the flags the dropdown was
\* initialized with, in every state and for every data tree, those without any child
\* included
C23_ModeOfFlags ==
    (call.op = "get" /\ call.containerId = ContainerId) =>
        call.ret.selectionType = ModeOfFlags

SingleTree == ~flags.hasMultiSelect /\ flags.hasTreeView

\* C31: in single-select tree mode a parent that has children is never the selected
\* item, neither after a click nor after setDDLData with that parent's id: the
\* selected item is a child or a parent without children
C31_ParentWithChildrenNeverSelected ==
    SingleTree => \A o \in selected : o.c = 0 => Kids(o.p) = {}

\* setDDLData was called with the id of a parent that has children and left nothing
\* selected
C31_Witness ==
    /\ SingleTree /\ SetDone
    /\ selected = {}
    /\ \E P \in Parents : Kids(P) # {} /\ call.parents = <<data[P].id>>

\* C33: a change of the search text, clearing it included, changes no child's mark,
\* no parent mark outside multi-select tree mode, and not the selected option of a
\* single-select dropdown; it may change parent marks in multi-select tree mode only
C33_SearchFrame ==
    [][last'.op = "search" =>
            /\ cMark' = cMark
            /\ selected' = selected
            /\ ~MultiTree => pMark' = pMark]_vars

\* a search has left a parent checked over its visible children while a hidden child
\* of it is unchecked
C33_Witness ==
    /\ last.op = "search" /\ MultiTree /\ hasActiveSearch
    /\ \E P \in Parents :
            /\ pMark[P] = MarkChecked
            /\ \E x \in KidsOf(P) : IsHidden(x) /\ ~IsChecked(x)

\* the marks setDDLData leaves on a multi-select tree when no filter is active, as a
\* function of the tree and the payload: a child is checked when its parent's id is
\* among the parents or it is the first child carrying one of the children ids
InjectedChild(x, parentIds, childIds) ==
    \/ InList(data[x[1]].id, parentIds)
    \/ \E i \in 1..Len(childIds) : ChildCheckbox(childIds[i]) = x

InjectedParent(P, parentIds, childIds) ==
    LET checkedKids == { x \in KidsOf(P) : InjectedChild(x, parentIds, childIds) }
    IN IF checkedKids = {} THEN BoolMark(InList(data[P].id, parentIds))
       ELSE IF checkedKids = KidsOf(P) THEN MarkChecked
       ELSE MarkIndeterminate

\* C34: the marks setDDLData leaves on a multi-select tree depend on the tree and the
\* payload only, not on the search filter active during the call: they are the marks
\* the same payload leaves on the same tree with no filter
C34_InjectionIgnoresFilter ==
    (SetDone /\ MultiTree) =>
        /\ \A x \in Children :
                cMark[x[1]][x[2]] = BoolMark(InjectedChild(x, call.parents, call.children))
        /\ \A P \in Parents : pMark[P] = InjectedParent(P, call.parents, call.children)

\* C35: after every operation (toggle, bulk action, injection, single selection,
\* placeholder click, change of the search text) the header reflects the current
\* selection: the placeholder when getDDLData reports no item, else the summary of
\* what getDDLData reports
C35_HeaderReflectsSelection ==
    run = Idle => header = updateDropdownHeader(Dom).hd

\* C36: a click on the enabled placeholder option clears every selection of the
\* dropdown, in every mode and also while a search filter is active: afterwards
\* getDDLData reports no item
C36_PlaceholderClears ==
    (last.op = "clear" /\ last.via = "click") => ~getDDLData(Dom).hasData

\* C38: in the single-select modes, after setDDLData with a payload that has a target,
\* a parent is selected only if its id was supplied in `parents` and a child only if
\* its id was supplied in `children`
C38_ListKindRespected ==
    (SetDone /\ SingleSelect /\ ~Falsy(TargetId(call.parents, call.children))) =>
        \A o \in selected :
            IF o.c = 0 THEN InList(data[o.p].id, call.parents)
            ELSE InList(data[o.p].children[o.c], call.children)

--------------------------------------------------------------------------
(* Properties of the page (SpecPage) *)

\* C22: two dropdowns with distinct container ids are isolated: an operation addressed
\* to the second one (a click on one of its checkboxes, its Select All / Clear All, an
\* injection into it) leaves the marks and the visibility of the first unchanged, and
\* an operation addressed to the first (click, bulk, search, injection) leaves the
\* marks of the second unchanged
C22_InstancesIsolated ==
    [][/\ last'.via = "other" => UNCHANGED <<pMark, cMark, pHidden, cHidden>>
       /\ last'.via # "other" => UNCHANGED page]_vars

--------------------------------------------------------------------------
(* Properties of initialize and renderOptions (SpecRender) *)

Out == render.out
Earlier(i) == { j \in 1..(i - 1) : Out[j].id = Out[i].id }

\* C27: within one render pass validateId answers true, and records the id, the first
\* time a generated id is seen and false every later time; the seen set is emptied at
\* the start of each pass, so that the ids of the previous pass are accepted again;
\* and a duplicate does not keep its node from being rendered: every node of the data
\* is rendered, in order
C27_ValidateId ==
    /\ \A i \in 1..Len(Out) : Out[i].valid <=> Earlier(i) = {}
    /\ render.pc \in {"rendering", "rendered"} =>
            render.usedIds = { Out[i].id : i \in 1..Len(Out) }
    /\ render.pc = "rendered" =>
            [i \in 1..Len(Out) |-> [kind |-> Out[i].kind, p |-> Out[i].p, c |-> Out[i].c]]
                = NodesToRender(render.params.data, render.flags["treeView"], 1)

\* the second pass over two parents with the same id: the first is accepted again, the
\* second is reported, both are rendered
C27_Witness ==
    /\ render.pc = "rendered" /\ render.pass = 2
    /\ Len(Out) >= 2
    /\ Out[1].kind = "parent" /\ Out[1].valid
    /\ \E i \in 2..Len(Out) :
            Out[i].kind = "parent" /\ Out[i].id = Out[1].id /\ ~Out[i].valid

\* the element id of the parent entry of node i of the pass
OwnParentId(i) == generateId(render.params.containerId, render.params.data[Out[i].p].id, NoId)

\* C28: a parent gets the id containerId-parentId, a child the id
\* containerId-parentId-childId, whatever the identifier, so that a child's id is
\* never the id of its own parent
C28_CompositeIds ==
    \A i \in 1..Len(Out) :
        LET parentId == render.params.data[Out[i].p].id
        IN IF Out[i].kind = "parent"
           THEN Out[i].id = render.params.containerId \o Dash \o parentId.s
           ELSE /\ Out[i].id = render.params.containerId \o Dash \o parentId.s \o Dash
                                  \o render.params.data[Out[i].p].children[Out[i].c].s
                /\ Out[i].id # OwnParentId(i)

\* C29: after initialize a capability is enabled exactly when its flag was given as
\* {enabled: true} in the documented shape
C29_FlagsAsDocumented ==
    render.pc # "params" =>
        \A name \in FlagNames :
            render.flags[name] <=> (render.params.shape = "documented" /\ render.params.given[name])

\* C39: for every checkbox an instance renders (element id: the generated id of its
\* node followed by '-checkbox') extractContainerIdFromElement recovers the container
\* id the instance was initialized with, also for ids that contain '-'
C39_ContainerIdRecovered ==
    render.flags["multiSelect"] =>
        \A i \in 1..Len(Out) :
            extractContainerIdFromElement(CheckboxIdOf(Out[i].id))
                = [null |-> FALSE, id |-> render.params.containerId]

--------------------------------------------------------------------------
(* Properties of opening and closing (SpecOpen) *)

\* C37: at most one dropdown of the page is open at any time: no two wrappers carry
\* the 'open' mark together, whatever the header clicks, outside clicks, single
\* selections and placeholder clicks, and a wrapper carries it iff its options list
\* is not hidden
C37_AtMostOneOpen ==
    /\ \A i, j \in Instances : (page.open[i] /\ page.open[j]) => i = j
    /\ \A i \in Instances : page.open[i] <=> ~page.hidden[i]

\* the header of a closed dropdown was clicked while another one was open: the clicked
\* one is open and the click closed the other
C37_Witness ==
    /\ page.op = "header" /\ page.open[page.at]
    /\ \E j \in Instances : j # page.at /\ j \in page.closed /\ page.hidden[j]
====
